---- MODULE Spec2Model ----
(***************************************************************************)
(* Model of the AccessibilityAgent editor extension (src/src/rules/         *)
(* android.ts): the sidebar run (single-shot and chunked rewrite), the     *)
(* command entry point, the revert handler, the single-slot backup ledger  *)
(* `lastAppliedBackup`, the completion client, the model listing, the      *)
(* prompt builders, the response parser and the line diff.                 *)
(*                                                                         *)
(* Texts are sequences of lines.  A document of the editor is its sequence *)
(* of lines (document.lineCount = Len, never 0).  Every handler is an      *)
(* async function run by the single-threaded extension host: one action of *)
(* the model is the code a handler runs between two awaits, so handlers    *)
(* interleave only at their awaits.                                        *)
(***************************************************************************)
EXTENDS Integers, Sequences, FiniteSets, TLC

\* Scaled stand-in for `const CHUNK_MAX_LINES = 300` (android.ts:308): the
\* largest line count handled in one shot and the length of a chunk.
CHUNK_MAX_LINES == 2

\* Messages and commands handled in a behaviour (reverts that find the
\* ledger empty are not counted).
MaxStarts == 2

\* Handler invocations that may be suspended at an await at the same time.
MaxProcs == 2

Procs == 1..MaxProcs
DocIds == {"A", "B"}
NoEditor == "none"
Null == [uri |-> "none", content |-> <<>>]

\* what vscode.window.activeTextEditor can be when a handler reads it
Editors == DocIds \cup {NoEditor}

Min(a, b) == IF a < b THEN a ELSE b

\* n copies of line x
Rep(x, n) == [k \in 1..n |-> x]

VARIABLES
  docs,              \* live content of every open document
  dirty,             \* documents with edits not yet saved
  lastAppliedBackup, \* the backup ledger
  procs,             \* the handler invocations in progress
  started,           \* messages and commands handled so far
  lastEvent,         \* what the last step did (observation only)
  calc               \* a function of the code applied to given arguments

vars == <<docs, dirty, lastAppliedBackup, procs, started, lastEvent, calc>>

----------------------------------------------------------------------------
\* Text helpers

\* String.prototype.trim at line granularity: blank lines at both ends go.
RECURSIVE TrimLeft(_)
TrimLeft(t) ==
  IF t = <<>> THEN <<>>
  ELSE IF Head(t) = "" THEN TrimLeft(Tail(t)) ELSE t

RECURSIVE TrimRight(_)
TrimRight(t) ==
  IF t = <<>> THEN <<>>
  ELSE IF t[Len(t)] = "" THEN TrimRight(SubSeq(t, 1, Len(t) - 1)) ELSE t

Trim(t) == TrimRight(TrimLeft(t))

\* Array.prototype.slice(start, end) on 0-based line indices
Slice(lines, start, end) == SubSeq(lines, start + 1, Min(end, Len(lines)))

\* editBuilder.replace of the whole lines start..end-1 by the lines of body
ReplaceLines(lines, start, end, body) ==
  SubSeq(lines, 1, start) \o body \o SubSeq(lines, end + 1, Len(lines))

----------------------------------------------------------------------------
\* Chunk planner: for (start = 0; start < totalLines; start += max) push
\* {start, end: min(start + max, totalLines)}

\* variant: the end of a range not clamped to totalLines
PlanFromUnclamped(start, totalLines, maxChunkLines) ==
  [k \in 1..((totalLines - start + maxChunkLines - 1) \div maxChunkLines) |->
     [start |-> start + (k - 1) * maxChunkLines,
      end |-> start + k * maxChunkLines]]

RECURSIVE PlanFrom(_, _, _)
PlanFrom(start, totalLines, maxChunkLines) ==
  IF start < totalLines
  THEN <<[start |-> start, end |-> Min(start + maxChunkLines, totalLines)]>>
       \o PlanFrom(start + maxChunkLines, totalLines, maxChunkLines)
  ELSE <<>>

\* variant: a loop that also runs at start = totalLines
PlanChunksInclusive(totalLines, maxChunkLines) ==
  PlanFrom(0, totalLines, maxChunkLines)
    \o (IF totalLines % maxChunkLines = 0
        THEN <<[start |-> totalLines, end |-> totalLines]>> ELSE <<>>)

PlanChunks(totalLines, maxChunkLines) == PlanFrom(0, totalLines, maxChunkLines)

----------------------------------------------------------------------------
\* Response parser.  A model text is a sequence of lines; a fence line is a
\* line made of three backticks and an optional alphanumeric tag.

\* "~~~" stands for the three backticks of a fence, "~~~kt" for a fence
\* with an alphanumeric tag, "~~~c+" for one whose tag holds another
\* character (c++, c#, objective-c)
Fences == {"~~~", "~~~kt", "~~~c+"}

\* a line the opening of the pattern, fence [a-zA-Z0-9]* newline, can match:
\* the fence and alphanumeric characters only up to the end of the line
AlnumFences == {"~~~", "~~~kt"}

IsOpener(line) == line \in AlnumFences

\* a line the closing of the pattern, newline fence, can match: whatever
\* follows the fence
IsCloser(line) == line \in Fences

\* index of the first closing fence at or after line from, 0 when none
RECURSIVE FindCloser(_, _)
FindCloser(text, from) ==
  IF from > Len(text) THEN 0
  ELSE IF IsCloser(text[from]) THEN from
  ELSE FindCloser(text, from + 1)

\* leftmost match of the fenced-block pattern at or after line o: the line
\* of the opener, 0 when the text has no match.  The body holds at least
\* one (possibly empty) line, so the closer is two lines below the opener or
\* further.
RECURSIVE FindOpener(_, _)
FindOpener(text, o) ==
  IF o > Len(text) THEN 0
  ELSE IF IsOpener(text[o]) /\ FindCloser(text, o + 2) # 0 THEN o
  ELSE FindOpener(text, o + 1)

\* summary lines kept: pre.split(/\n+/).slice(0, 20)
SummaryMaxLines == 20

NonBlank(line) == line # ""

\* variant: every line kept
FirstLinesUncapped(t, n) == t

FirstLines(t, n) == SubSeq(t, 1, Min(n, Len(t)))

NoUpdate(modelText) ==
  [hasUpdate |-> FALSE, updatedContent |-> <<>>, summary |-> <<>>,
   raw |-> modelText]

\* variant: a block equal to the original after trimming is returned
extractWithoutEqualityCheck(modelText, original) ==
  LET o == FindOpener(modelText, 1) IN
  IF o = 0 THEN NoUpdate(modelText)
  ELSE
    LET c       == FindCloser(modelText, o + 2)
        updated == SubSeq(modelText, o + 1, c - 1)
    IN IF Trim(updated) = <<>> THEN NoUpdate(modelText)
       ELSE [hasUpdate |-> TRUE, updatedContent |-> updated,
             summary |-> <<>>, raw |-> <<>>]

extractUpdatedFileAndSummary(modelText, original) ==
  LET o == FindOpener(modelText, 1) IN
  IF o = 0 THEN NoUpdate(modelText)
  ELSE
    LET c       == FindCloser(modelText, o + 2)
        updated == SubSeq(modelText, o + 1, c - 1)
        pre     == Trim(SubSeq(modelText, 1, o - 1))
        summary == FirstLines(SelectSeq(pre, NonBlank), SummaryMaxLines)
    IN IF Trim(updated) = <<>> \/ Trim(updated) = Trim(original)
       THEN NoUpdate(modelText)
       ELSE [hasUpdate |-> TRUE, updatedContent |-> updated,
             summary |-> summary, raw |-> <<>>]

----------------------------------------------------------------------------
\* The remote model: what a completion call can come back with.

Fenced(body) == <<"s", "~~~">> \o body \o <<"~~~">>

\* bodies the remote may put in its code block, besides echoes of the prompt
NewBodies == { Rep("b", n) : n \in {1, CHUNK_MAX_LINES + 1} }

ModelTexts(promptText) ==
  { <<"s">>,                                  \* no fenced block
    Fenced(<<"">>),                           \* empty block
    Fenced(promptText),                       \* the prompt's text, unchanged
    Fenced(<<"">> \o promptText \o <<"">>) }  \* the same after trimming
  \cup { Fenced(b) : b \in NewBodies }

----------------------------------------------------------------------------
\* Line diff: diffLines of the `diff` package, called by
\* buildColoredUnifiedDiff.  The package is not part of the sources; it is
\* modelled as the specification describes it: a line-granularity
\* longest-common-subsequence comparison whose segments come in document
\* order, consecutive lines of one classification coalesced.

\* a text as the lines diffLines compares: every line with its newline,
\* the last one without when the text does not end with a newline
Tokens(text) ==
  [k \in 1..(Len(text) - 1) |-> [line |-> text[k], nl |-> TRUE]]
    \o (IF text[Len(text)] = "" THEN <<>>
        ELSE <<[line |-> text[Len(text)], nl |-> FALSE]>>)

\* the text a sequence of such lines spells
Join(tokens) ==
  [k \in 1..Len(tokens) |-> tokens[k].line]
    \o (IF tokens = <<>> \/ tokens[Len(tokens)].nl THEN <<"">> ELSE <<>>)

\* length of a longest common subsequence of x and y
RECURSIVE LcsLen(_, _)
LcsLen(x, y) ==
  IF x = <<>> \/ y = <<>> THEN 0
  ELSE IF Head(x) = Head(y) THEN 1 + LcsLen(Tail(x), Tail(y))
  ELSE LET dropX == LcsLen(Tail(x), y)
           dropY == LcsLen(x, Tail(y))
       IN IF dropX >= dropY THEN dropX ELSE dropY

\* the edit script along a longest common subsequence, removals before
\* additions
RECURSIVE EditScript(_, _)
EditScript(x, y) ==
  IF x = <<>> /\ y = <<>> THEN <<>>
  ELSE IF y = <<>>
  THEN <<[tag |-> "removed", token |-> Head(x)]>> \o EditScript(Tail(x), y)
  ELSE IF x = <<>>
  THEN <<[tag |-> "added", token |-> Head(y)]>> \o EditScript(x, Tail(y))
  ELSE IF Head(x) = Head(y)
  THEN <<[tag |-> "common", token |-> Head(x)]>>
       \o EditScript(Tail(x), Tail(y))
  ELSE IF LcsLen(Tail(x), y) >= LcsLen(x, Tail(y))
  THEN <<[tag |-> "removed", token |-> Head(x)]>> \o EditScript(Tail(x), y)
  ELSE <<[tag |-> "added", token |-> Head(y)]>> \o EditScript(x, Tail(y))

\* a Change of the package: its classification and its value
Segment(tag, value) ==
  [added |-> tag = "added", removed |-> tag = "removed", value |-> value]

TagOf(segment) ==
  IF segment.added THEN "added"
  ELSE IF segment.removed THEN "removed" ELSE "common"

\* consecutive lines of one classification made one segment
RECURSIVE Coalesce(_)
Coalesce(script) ==
  IF script = <<>> THEN <<>>
  ELSE LET rest == Coalesce(Tail(script))
           op   == Head(script)
       IN IF rest # <<>> /\ TagOf(Head(rest)) = op.tag
          THEN <<Segment(op.tag, <<op.token>> \o Head(rest).value)>>
               \o Tail(rest)
          ELSE <<Segment(op.tag, <<op.token>>)>> \o rest

\* variant: the two texts compared the other way round
diffLinesSwapped(oldText, newText) ==
  Coalesce(EditScript(Tokens(newText), Tokens(oldText)))

diffLines(oldText, newText) ==
  Coalesce(EditScript(Tokens(oldText), Tokens(newText)))

----------------------------------------------------------------------------
\* Completion client.  The remote is the sequence of HTTP responses it gives
\* to the requests it receives, in order; a response carries its status,
\* its body as text (read by response.text()) and what response.json()
\* finds at choices[0].message.content.

\* response.ok: a status in the range 200-299
ResponseOk(response) == response.status \in 200..299

\* Scaled stand-in for the 500 of `text.substring(0, 500)`: the characters
\* of an error body kept in the message.
BodyExcerptMax == 2

\* json kinds: the body is not JSON ("invalid"), the content is absent
\* ("missing"), the empty string ("empty"), a truthy non-string
\* ("nonstring"), or a non-empty string ("string")
Json(kind, content) == [kind |-> kind, content |-> content]

Http(status, body, json) == [status |-> status, body |-> body, json |-> json]

\* the errors thrown: all are plain Error objects, told apart by their
\* message only; template is the fixed part of the message
NoError == [template |-> "none", status |-> 0, excerpt |-> <<>>]

\* new Error(`Cody API request failed (${response.status}): ${text.substring(0, 500)}`)
RequestFailed(response) ==
  [template |-> "Cody API request failed", status |-> response.status,
   excerpt |-> FirstLines(response.body, BodyExcerptMax)]

\* new Error('Unexpected Cody API response: missing message content.')
MissingContent ==
  [template |-> "Unexpected Cody API response: missing message content.",
   status |-> 0, excerpt |-> <<>>]

\* what `await response.json()` throws on a body that is not JSON
JsonSyntaxError ==
  [template |-> "SyntaxError", status |-> 0, excerpt |-> <<>>]

\* the result of a call: the error thrown or the content returned, and the
\* number of HTTP requests the call has sent
Thrown(error, requests) ==
  [ok |-> FALSE, text |-> <<>>, error |-> error, requests |-> requests]

Returned(text, requests) ==
  [ok |-> TRUE, text |-> text, error |-> NoError, requests |-> requests]

\* the rest of callCodyApi once a response has arrived
OnResponse(response, requests) ==
  IF ~ResponseOk(response) THEN Thrown(RequestFailed(response), requests)
  ELSE IF response.json.kind = "invalid" THEN Thrown(JsonSyntaxError, requests)
  ELSE IF response.json.kind # "string" THEN Thrown(MissingContent, requests)
  ELSE Returned(response.json.content, requests)

\* variant: a request answered with a non-success status sent a second time
callCodyApiRetrying(remote) ==
  IF ResponseOk(remote[1]) THEN OnResponse(remote[1], 1)
  ELSE OnResponse(remote[2], 2)

\* callCodyApi: one fetch, then the status and content checks
callCodyApi(remote) == OnResponse(remote[1], 1)

\* the responses a completion call of a run can meet: two non-success
\* statuses with a body longer than the excerpt, a success without message
\* content, and the successes carrying a model text
Responses(promptText) ==
  { Http(401, Rep("x", BodyExcerptMax + 1), Json("missing", <<>>)),
    Http(500, Rep("x", BodyExcerptMax + 1), Json("missing", <<>>)),
    Http(200, <<>>, Json("missing", <<>>)) }
  \cup { Http(200, <<>>, Json("string", t)) : t \in ModelTexts(promptText) }

\* what `await callCodyApi` comes back with, the remote answering a
\* repeated request as it answered the first
Replies(promptText) ==
  { callCodyApi(<<r, r>>) : r \in Responses(promptText) }

----------------------------------------------------------------------------
\* Model listing.  A response to the listing request carries what
\* response.json() finds at `data`: the body is not JSON ("invalid"), data
\* is absent or no array ("noarray"), or data is an array of entries
\* ("array").  An entry is [id, owned_by], the empty string standing for
\* a value that is absent, null or empty.

\* Scaled stand-in for the 300 of `text.substring(0, 300)`
ModelsExcerptMax == 1

Undefined == "undefined"

\* new Error(`Models request failed (${response.status}): ${text.substring(0, 300)}`)
ModelsRequestFailed(response) ==
  [template |-> "Models request failed", status |-> response.status,
   excerpt |-> FirstLines(response.body, ModelsExcerptMax)]

\* the result of listModels: the error thrown or the models returned, and
\* the number of HTTP requests sent
ListThrown(error, requests) ==
  [ok |-> FALSE, models |-> <<>>, error |-> error, requests |-> requests]

ListReturned(models, requests) ==
  [ok |-> TRUE, models |-> models, error |-> NoError, requests |-> requests]

\* m => ({ id: String(m?.id || ''), owned_by: m?.owned_by ? String(m.owned_by) : undefined })
ModelEntry(m) ==
  [id |-> m.id,
   owned_by |-> IF m.owned_by # "" THEN m.owned_by ELSE Undefined]

\* .filter(m => m.id)
HasId(m) == m.id # ""

\* variant: the mapped entries returned without the filter
ModelsOfAll(data) == [k \in DOMAIN data |-> ModelEntry(data[k])]

\* data.map(...).filter(...)
ModelsOf(data) ==
  SelectSeq([k \in DOMAIN data |-> ModelEntry(data[k])], HasId)

\* listModels: one fetch, the status check, then the entries of data
listModels(remote) ==
  LET response == remote[1] IN
  IF ~ResponseOk(response)
  THEN ListThrown(ModelsRequestFailed(response), 1)
  ELSE IF response.json.kind = "invalid" THEN ListThrown(JsonSyntaxError, 1)
  ELSE ListReturned(ModelsOf(IF response.json.kind = "array"
                             THEN response.json.content ELSE <<>>), 1)

----------------------------------------------------------------------------
\* Handler invocations

\* A slot with no handler in it.  kind: "sidebar" (runMakeAccessible),
\* "command" (accessibleAgent.makeAccessible) or "revert" (handleRevert);
\* pc: the await the handler is suspended at.  applied (edits written),
\* lastWritten (the document right after the last of them), calls
\* (completion calls in flight), issued (completion calls made so far),
\* unsaved (an edit whose save has not returned), reply (the reply being
\* handled), ledgerAtStart (the ledger when the handler began), fenceless
\* (every call so far returned a text without a fence line), requests
\* (HTTP requests sent by the calls that have returned) and listed (calls
\* of listModels made) observe the run and are read by no action.  selected
\* is payload.modelId,
\* config what the handler found configured (for the command, which reads
\* no rules, rulesText is what is stored when it starts), modelId the local
\* of that name.
NoReply == Returned(<<>>, 0)

\* The model ids of a run: the one selected in the webview and sent as
\* payload.modelId, the one resolved from the environment, the settings or
\* the default, and the one picked in the quick pick.  NoSelection is the
\* empty payload.modelId of a webview whose list has no selection.
Endpoint == "endpoint"
ModelId == "modelId"
Selected == "selected"
Picked == "picked"
NoSelection == ""

\* what a handler finds configured: whether getEndpointFromEnvOrSettings and
\* the token (secret, environment or settings) resolve to a value, and the
\* text stored under accessibleAgent.rulesText
Configs(rules) == [endpoint : BOOLEAN, token : BOOLEAN, rulesText : rules]

NoConfig == [endpoint |-> FALSE, token |-> FALSE, rulesText |-> <<>>]

\* rulesText as installed (never stored), blank, and holding a rule
DefaultRules == {<<>>}
RulesTexts == {<<>>, <<"">>, <<"r">>}

\* what the listing phase of a run meets: refresh, whether the listModels
\* that refreshes the webview's list returns; picker, how the block that
\* lets the user pick a model goes: its listModels throws ("listFailed"),
\* showQuickPick rejects ("pickFailed"), the user dismisses it
\* ("dismissed"), picks a model and the setting is updated ("picked"), or
\* picks a model and the update of the setting throws ("updateFailed")
Listings ==
  [refresh : BOOLEAN,
   picker : {"listFailed", "pickFailed", "dismissed", "picked",
             "updateFailed"}]

\* every listing returns and the user dismisses the picker
DefaultListings == {[refresh |-> TRUE, picker |-> "dismissed"]}

\* the prompts.  A prompt is its header and guidelines (template), for a
\* chunk its place in the plan, the section of additional rules, and the
\* fenced content
RulesHeading ==
  "Additional rules to follow strictly (override where applicable):"

\* no extraRules passed to the builder
NoRules == <<>>

\* const extra = input.extraRules && input.extraRules.trim().length > 0 ? ... : ''
ExtraSection(extraRules) ==
  IF Trim(extraRules) # <<>> THEN <<RulesHeading>> \o extraRules ELSE <<>>

buildUserPrompt(content, extraRules) ==
  [template |-> "file", chunkIndex |-> 0, totalChunks |-> 0,
   extra |-> ExtraSection(extraRules), block |-> content]

buildChunkPrompt(chunkIndex, totalChunks, chunkContent, extraRules) ==
  [template |-> "chunk", chunkIndex |-> chunkIndex,
   totalChunks |-> totalChunks, extra |-> ExtraSection(extraRules),
   block |-> chunkContent]

\* the arguments of a completion call
Request(modelId, prompt) == [model |-> modelId, prompt |-> prompt]

Idle ==
  [kind |-> "none", pc |-> "idle", doc |-> NoEditor, fileText |-> <<>>,
   totalLines |-> 0, path |-> "none", i |-> 0, promptText |-> <<>>,
   updated |-> <<>>, applied |-> 0, lastWritten |-> <<>>, calls |-> 0,
   unsaved |-> FALSE, reply |-> NoReply, issued |-> 0,
   ledgerAtStart |-> Null, fenceless |-> TRUE, requests |-> 0,
   selected |-> NoSelection, config |-> NoConfig, modelId |-> "",
   listed |-> 0]

\* the initial document texts: A is longer than a chunk and ends with a
\* newline (a last empty line), B fits one completion call
InitialText(d) ==
  IF d = "A" THEN Rep("a", 2 * CHUNK_MAX_LINES) \o <<"">>
  ELSE Rep("a", CHUNK_MAX_LINES)

\* a message posted to the webview; on is the payload of a 'loading'
\* message
Loading(on) == [type |-> "loading", on |-> on]
Told(type) == [type |-> type, on |-> FALSE]

IsLoading(message) == message.type = "loading"

\* variant: loading=false posted at the end of the try block, not in a
\* finally
PostsWithoutFinally(type, run, outcome) ==
  IF type = "noEditor" /\ outcome = "status"
  THEN <<Loading(TRUE), Told("status"), Loading(FALSE)>>
  ELSE IF run.kind # "sidebar" THEN <<>>
  ELSE IF type = "runStart" THEN <<Loading(TRUE)>>
  ELSE IF type = "noConfig" THEN <<Told("error"), Loading(FALSE)>>
  ELSE IF outcome = "error" THEN <<Told("error")>>
  ELSE IF outcome = "raw" THEN <<Told("result"), Loading(FALSE)>>
  ELSE IF outcome = "diff" THEN <<Told("diff"), Loading(FALSE)>>
  ELSE IF type \in {"configOk", "call", "skipped", "saved"}
  THEN <<Told("status")>>
  ELSE <<>>

\* the messages a step of runMakeAccessible posts, in order: loading=true
\* on entry, the status lines, the outcome, and loading=false before every
\* return and in the finally.  The command and the revert handler post no
\* 'loading' message.
Posts(type, run, outcome) ==
  IF type = "noEditor" /\ outcome = "status"
  THEN <<Loading(TRUE), Told("status"), Loading(FALSE)>>
  ELSE IF run.kind # "sidebar" THEN <<>>
  ELSE IF type = "runStart" THEN <<Loading(TRUE)>>
  ELSE IF type = "noConfig" THEN <<Told("error"), Loading(FALSE)>>
  ELSE IF outcome = "error" THEN <<Told("error"), Loading(FALSE)>>
  ELSE IF outcome = "raw" THEN <<Told("result"), Loading(FALSE)>>
  ELSE IF outcome = "diff" THEN <<Told("diff"), Loading(FALSE)>>
  ELSE IF type \in {"configOk", "call", "skipped", "saved"}
  THEN <<Told("status")>>
  ELSE <<>>

\* what the last step was and posted: its handler, the handler's record,
\* the outcome it reported, whether the step before it completed a revert,
\* the messages it posted to the webview, and the webview's loading state
\* after them (spinner shown, Run button disabled)
Event(type, p, run, outcome, payload) ==
  LET posts == Posts(type, run, outcome)
      shown == SelectSeq(posts, IsLoading)
  IN [type |-> type, proc |-> p, run |-> run, outcome |-> outcome,
      payload |-> payload, afterRevert |-> lastEvent.type = "revertDone",
      posts |-> posts,
      loading |-> IF shown = <<>> THEN lastEvent.loading
                  ELSE shown[Len(shown)].on]

\* no function under evaluation
NoCalc == [fn |-> "none", in |-> <<>>, out |-> <<>>, done |-> FALSE]

\* the extension once activated, before any message or command
Loaded ==
  /\ docs = [d \in DocIds |-> InitialText(d)]
  /\ dirty = [d \in DocIds |-> FALSE]
  /\ lastAppliedBackup = Null
  /\ procs = [p \in Procs |-> Idle]
  /\ started = 0
  /\ lastEvent = [type |-> "init", proc |-> 0, run |-> Idle,
                  outcome |-> "none", payload |-> <<>>, afterRevert |-> FALSE,
                  posts |-> <<>>, loading |-> FALSE]

Init == Loaded /\ calc = NoCalc

\* the slot a newly arrived message or command is handled in
FreeSlot(p) ==
  /\ procs[p].pc = "idle"
  /\ \A q \in Procs : q < p => procs[q].pc # "idle"

\* at most MaxStarts messages and commands are explored, not counting the
\* reverts that find the ledger empty
Counted == started < MaxStarts /\ started' = started + 1

\* The webview's Run button: a sidebar run posts loading=true at its start
\* and loading=false at its end, and the webview sets runBtn.disabled to
\* the payload, so no 'makeAccessible' message is sent during a sidebar run.
\* The Revert button and the command are never disabled.
RunBtnEnabled == \A q \in Procs : procs[q].kind # "sidebar"

\* runMakeAccessible up to `await this.context.secrets.get`, handling a
\* 'makeAccessible' message; activeEditor: the active editor at this moment,
\* selected: the message's payload.modelId
RunStart(p, activeEditor, selected) ==
  /\ FreeSlot(p)
  /\ RunBtnEnabled
  /\ Counted
  /\ IF activeEditor = NoEditor
     THEN /\ procs' = procs
          /\ lastEvent' = Event("noEditor", p, Idle, "status", <<>>)
     ELSE /\ procs' = [procs EXCEPT ![p] =
               [Idle EXCEPT !.kind = "sidebar", !.pc = "secrets",
                            !.doc = activeEditor, !.selected = selected,
                            !.fileText = docs[activeEditor],
                            !.lastWritten = docs[activeEditor],
                            !.ledgerAtStart = lastAppliedBackup]]
          /\ lastEvent' = Event("runStart", p, procs'[p], "none", <<>>)
  /\ UNCHANGED <<docs, dirty, lastAppliedBackup>>

\* variant: only the first missing value named
MissingFirstOnly(config) ==
  IF ~config.endpoint THEN <<"SRC_ENDPOINT">>
  ELSE <<"SRC_ACCESS_TOKEN or saved token">>

\* if (!endpoint) missing.push(...); if (!token) missing.push(...)
Missing(config) ==
  (IF ~config.endpoint THEN <<"SRC_ENDPOINT">> ELSE <<>>)
    \o (IF ~config.token THEN <<"SRC_ACCESS_TOKEN or saved token">>
        ELSE <<>>)

\* the error for a missing endpoint or token.  Sidebar: 'Missing
\* configuration: ' + missing.join(' and ') + '.'; command: one fixed
\* sentence naming both environment variables
MissingReport(kind, config) ==
  IF kind = "sidebar"
  THEN [template |-> "Missing configuration", missing |-> Missing(config)]
  ELSE [template |-> "Missing Cody API configuration",
        missing |-> <<"SRC_ENDPOINT", "SRC_ACCESS_TOKEN">>]

\* runMakeAccessible from the secret's arrival to `await listModels`;
\* config: what endpoint, token and rulesText resolve to
RunConfig(p, config) ==
  /\ procs[p].pc = "secrets"
  /\ LET run == [procs[p] EXCEPT
                   !.config = config,
                   !.modelId = IF procs[p].selected # NoSelection
                               THEN procs[p].selected ELSE ModelId]
     IN IF ~config.endpoint \/ ~config.token
        THEN /\ procs' = [procs EXCEPT ![p] = Idle]
             /\ lastEvent' = Event("noConfig", p, run, "error",
                                   MissingReport(run.kind, config))
        ELSE /\ procs' = [procs EXCEPT ![p] =
                  [run EXCEPT !.pc = "listing",
                              !.totalLines = Len(docs[run.doc])]]
             /\ lastEvent' = Event("configOk", p, procs'[p], "none", <<>>)
  /\ UNCHANGED <<docs, dirty, lastAppliedBackup, started>>

\* the command's callback up to `await listModels`
CmdStart(p, activeEditor, config) ==
  /\ FreeSlot(p)
  /\ Counted
  /\ IF activeEditor = NoEditor
     THEN /\ procs' = procs
          /\ lastEvent' = Event("noEditor", p, Idle, "info", <<>>)
     ELSE IF ~config.endpoint \/ ~config.token
     THEN /\ procs' = procs
          /\ lastEvent' = Event("noConfig", p, Idle, "error",
                                MissingReport("command", config))
     ELSE /\ procs' = [procs EXCEPT ![p] =
               [Idle EXCEPT !.kind = "command", !.pc = "listing",
                            !.doc = activeEditor, !.config = config,
                            !.modelId = ModelId,
                            !.fileText = docs[activeEditor],
                            !.lastWritten = docs[activeEditor],
                            !.ledgerAtStart = lastAppliedBackup]]
          /\ lastEvent' = Event("runStart", p, procs'[p], "none", <<>>)
  /\ UNCHANGED <<docs, dirty, lastAppliedBackup>>

----------------------------------------------------------------------------
\* The run: planning, completion calls, edits

NumChunks(run) == Len(PlanChunks(run.totalLines, CHUNK_MAX_LINES))

ChunkOf(run, i) == PlanChunks(run.totalLines, CHUNK_MAX_LINES)[i + 1]

\* variant: the chunk's text taken from the text read at run start
ChunkTextOfSnapshot(run, i, liveText) ==
  Slice(run.fileText, ChunkOf(run, i).start, ChunkOf(run, i).end)

\* chunkText of chunk i: currentText.split(/\r?\n/).slice(start, end), read
\* from the live document
ChunkText(run, i, liveText) ==
  Slice(liveText, ChunkOf(run, i).start, ChunkOf(run, i).end)

\* the extraRules a run passes to the prompt builders: the sidebar run its
\* configRulesText, (globalState.get('accessibleAgent.rulesText') || '')
\* .trim(); the command none
ExtraRulesOf(run) ==
  IF run.kind = "sidebar" THEN Trim(run.config.rulesText) ELSE NoRules

\* top of the loop body for chunk i up to `await callCodyApi`
BeginChunk(run, i, liveText) ==
  [run EXCEPT !.pc = "call", !.i = i,
              !.promptText = ChunkText(run, i, liveText),
              !.calls = @ + 1, !.reply = NoReply, !.issued = @ + 1]

\* variant: a document of exactly CHUNK_MAX_LINES lines sent to the chunk
\* loop
PathOfStrict(run) ==
  IF run.kind = "command" \/ run.totalLines < CHUNK_MAX_LINES
  THEN "single" ELSE "chunked"

\* the run's path: the command never chunks
PathOf(run) ==
  IF run.kind = "command" \/ run.totalLines <= CHUNK_MAX_LINES
  THEN "single" ELSE "chunked"

\* the arguments of the completion call a run suspended at `await
\* callCodyApi` has made: its modelId, and the prompt built from the whole
\* text (buildUserPrompt) or from the chunk's text (buildChunkPrompt) and
\* the extraRules
RequestOf(run) ==
  Request(run.modelId,
          IF run.path = "single"
          THEN buildUserPrompt(run.promptText, ExtraRulesOf(run))
          ELSE buildChunkPrompt(run.i + 1, NumChunks(run), run.promptText,
                                ExtraRulesOf(run)))

\* whether a run lets the user pick a model: the command always, the
\* sidebar run if (!payload?.modelId)
OffersPicker(run) == run.kind = "command" \/ run.selected = NoSelection

\* the calls of listModels a run makes: the sidebar run one to refresh the
\* webview's list, and each entry point one for the picker
ListCalls(run) ==
  (IF run.kind = "sidebar" THEN 1 ELSE 0)
    + (IF OffersPicker(run) THEN 1 ELSE 0)

\* variant: modelId assigned once the setting is updated
ModelAfterListingSaved(run, listing) ==
  IF OffersPicker(run) /\ listing.picker = "picked"
  THEN Picked ELSE run.modelId

\* modelId after the listing phase: if (picked?.id) modelId = picked.id,
\* assigned before the setting is updated; every throw in the phase is
\* caught and dropped
ModelAfterListing(run, listing) ==
  IF OffersPicker(run) /\ listing.picker \in {"picked", "updateFailed"}
  THEN Picked ELSE run.modelId

\* from the model list's arrival (or failure, which is swallowed, as is the
\* model picker's) to the first `await callCodyApi`; listing: how the
\* listing phase goes
RunListed(p, listing) ==
  /\ procs[p].pc = "listing"
  /\ LET run == [procs[p] EXCEPT
                   !.path = PathOf(procs[p]),
                   !.listed = ListCalls(procs[p]),
                   !.modelId = ModelAfterListing(procs[p], listing)]
     IN
     /\ procs' = [procs EXCEPT ![p] =
          IF run.path = "single"
          THEN [run EXCEPT !.pc = "call", !.promptText = run.fileText,
                           !.calls = @ + 1, !.issued = @ + 1]
          ELSE BeginChunk(run, 0, docs[run.doc])]
     /\ lastEvent' = Event("call", p, procs'[p], "none", listing)
  /\ UNCHANGED <<docs, dirty, lastAppliedBackup, started>>

\* what lineAt throws for a line beyond the document
IllegalLine ==
  [template |-> "Illegal value for line", status |-> 0, excerpt |-> <<>>]

\* err.message of the error caught: the client's, or lineAt's
CaughtError(run, type) ==
  IF type = "rangeError" THEN IllegalLine ELSE run.reply.error

\* what the catch block reports.  Sidebar: post({type: 'error', payload:
\* `Endpoint: ${endpoint}\nModel: ${modelId}\nError: ${message}`});
\* command: showErrorMessage(`Galaxy Accessibility Agent error: ${message}`)
ErrorReport(run, error) ==
  IF run.kind = "sidebar"
  THEN [endpoint |-> Endpoint, model |-> run.modelId, message |-> error]
  ELSE [message |-> error]

\* the catch block and finally: the run ends with the error
Abort(p, run, type) ==
  /\ procs' = [procs EXCEPT ![p] = Idle]
  /\ lastEvent' = Event(type, p, run, "error",
                        ErrorReport(run, CaughtError(run, type)))

\* variant: the final diff taken against the last replacement received
AdvanceDiffOfReply(p, run, liveText, type) ==
  IF run.i + 1 < NumChunks(run)
  THEN /\ procs' = [procs EXCEPT ![p] = BeginChunk(run, run.i + 1, liveText)]
       /\ lastEvent' = Event(type, p, run, "none", <<>>)
  ELSE /\ procs' = [procs EXCEPT ![p] = Idle]
       /\ lastEvent' = Event(type, p, run, "diff",
                             [old |-> run.fileText, new |-> run.updated,
                              chunksReported |-> NumChunks(run)])

\* variant: a loop that ends without posting its diff
AdvanceWithoutDiff(p, run, liveText, type) ==
  IF run.i + 1 < NumChunks(run)
  THEN /\ procs' = [procs EXCEPT ![p] = BeginChunk(run, run.i + 1, liveText)]
       /\ lastEvent' = Event(type, p, run, "none", <<>>)
  ELSE /\ procs' = [procs EXCEPT ![p] = Idle]
       /\ lastEvent' = Event(type, p, run, "none", <<>>)

\* the end of the loop body: the next chunk's call, or after the last chunk
\* the diff of the pre-run text against the live document, posted with the
\* summary "Applied chunked edits in ${chunks.length} chunks."
Advance(p, run, liveText, type) ==
  IF run.i + 1 < NumChunks(run)
  THEN /\ procs' = [procs EXCEPT ![p] = BeginChunk(run, run.i + 1, liveText)]
       /\ lastEvent' = Event(type, p, run, "none", <<>>)
  ELSE /\ procs' = [procs EXCEPT ![p] = Idle]
       /\ lastEvent' = Event(type, p, run, "diff",
                             [old |-> run.fileText, new |-> liveText,
                              chunksReported |-> NumChunks(run)])

\* variant: a failed call treated like a chunk without an update
OnCallFailedContinue(p, run) ==
  /\ Advance(p, run, docs[run.doc], "callFailed")
  /\ UNCHANGED <<docs, dirty, lastAppliedBackup>>

\* a completion call that threw, in either path
OnCallFailed(p, run) ==
  /\ Abort(p, run, "callFailed")
  /\ UNCHANGED <<docs, dirty, lastAppliedBackup>>

\* variant: a chunk without an update ending the run
OnNoChunkUpdateAbort(p, run) ==
  /\ Abort(p, run, "skipped")
  /\ UNCHANGED <<docs, dirty, lastAppliedBackup>>

\* variant: the record captured before the check for updated content
OnNoChunkUpdateCapturing(p, run) ==
  /\ Advance(p, run, docs[run.doc], "skipped")
  /\ lastAppliedBackup' = [uri |-> run.doc, content |-> run.fileText]
  /\ UNCHANGED <<docs, dirty>>

\* a chunk whose response holds no valid updated content: `continue`
OnNoChunkUpdate(p, run) ==
  /\ Advance(p, run, docs[run.doc], "skipped")
  /\ UNCHANGED <<docs, dirty, lastAppliedBackup>>

\* lineAt(start) and lineAt(end - 1) throw beyond the document's last line
RangeOk(run, liveText) ==
  /\ ChunkOf(run, run.i).start < Len(liveText)
  /\ ChunkOf(run, run.i).end - 1 < Len(liveText)

\* the record a run captures: its document and its pre-run text
BackupOf(run) == [uri |-> run.doc, content |-> run.fileText]

\* variant: the chunked path capturing like the single-shot path
CaptureChunkedAlways(ledger, run) == BackupOf(run)

\* chunked path: if (!lastAppliedBackup) lastAppliedBackup = {...}
CaptureChunked(ledger, run) == IF ledger = Null THEN BackupOf(run) ELSE ledger

\* single-shot path and command: lastAppliedBackup = {...}
CaptureSingle(ledger, run) == BackupOf(run)

\* variant: the next completion call issued without awaiting the save
AwaitSaveNot(run) ==
  [run EXCEPT !.pc = "save", !.unsaved = TRUE, !.reply = NoReply,
              !.calls = @ + 1]

\* what the handler does once its edit is in the document: `await save()`
AwaitSave(run) ==
  [run EXCEPT !.pc = "save", !.unsaved = TRUE, !.reply = NoReply]

\* the edit of a run: the ledger, the document, and the suspension at save
ApplyEdit(p, run, ledger, newText, type) ==
  /\ lastAppliedBackup' = ledger
  /\ docs' = [docs EXCEPT ![run.doc] = newText]
  /\ dirty' = [dirty EXCEPT ![run.doc] = TRUE]
  /\ procs' = [procs EXCEPT ![p] =
       AwaitSave([run EXCEPT !.applied = @ + 1, !.lastWritten = newText])]
  /\ lastEvent' = Event(type, p, [procs'[p] EXCEPT !.reply = run.reply],
                        "none", <<>>)

\* chunked path, from a completion call's return to the next await
ChunkReturn(p, reply) ==
  LET run == [procs[p] EXCEPT
                !.calls = @ - 1, !.reply = reply,
                !.requests = @ + reply.requests,
                !.fenceless = @ /\ reply.ok
                                /\ \A k \in DOMAIN reply.text :
                                     reply.text[k] \notin Fences]
      x   == extractUpdatedFileAndSummary(reply.text, run.promptText)
      cur == docs[run.doc]
      c   == ChunkOf(run, run.i)
  IN IF ~reply.ok THEN OnCallFailed(p, run)
     ELSE IF ~x.hasUpdate THEN OnNoChunkUpdate(p, run)
     ELSE IF ~RangeOk(run, cur)
     THEN /\ Abort(p, run, "rangeError")
          /\ UNCHANGED <<docs, dirty, lastAppliedBackup>>
     ELSE ApplyEdit(p, [run EXCEPT !.updated = x.updatedContent],
                    CaptureChunked(lastAppliedBackup, run),
                    ReplaceLines(cur, c.start, c.end, x.updatedContent),
                    "applied")

\* single-shot path and command, from the completion call's return to the
\* next await
SingleReturn(p, reply) ==
  LET run == [procs[p] EXCEPT
                !.calls = @ - 1, !.reply = reply,
                !.requests = @ + reply.requests,
                !.fenceless = @ /\ reply.ok
                                /\ \A k \in DOMAIN reply.text :
                                     reply.text[k] \notin Fences]
      x   == extractUpdatedFileAndSummary(reply.text, run.fileText)
  IN IF ~reply.ok THEN OnCallFailed(p, run)
     ELSE IF ~x.hasUpdate
     THEN /\ procs' = [procs EXCEPT ![p] = Idle]
          /\ lastEvent' = Event("noUpdate", p, run,
                                IF run.kind = "sidebar" THEN "raw" ELSE "info",
                                x.raw)
          /\ UNCHANGED <<docs, dirty, lastAppliedBackup>>
     ELSE ApplyEdit(p, [run EXCEPT !.updated = x.updatedContent],
                    CaptureSingle(lastAppliedBackup, run),
                    x.updatedContent, "applied")

CallReturn(p) ==
  /\ procs[p].pc = "call"
  /\ \E reply \in Replies(procs[p].promptText) :
       IF procs[p].path = "chunked" THEN ChunkReturn(p, reply)
       ELSE SingleReturn(p, reply)
  /\ UNCHANGED <<started>>

\* variant: handleRevert without the comparison of the two uris
RevertErrorAnyDocument(ledger, editor) ==
  IF ledger = Null THEN "NothingToRevert"
  ELSE IF editor = NoEditor THEN "NoActiveEditor"
  ELSE "none"

\* handleRevert's checks, in the order of the code
RevertError(ledger, editor) ==
  IF ledger = Null THEN "NothingToRevert"
  ELSE IF editor = NoEditor THEN "NoActiveEditor"
  ELSE IF ledger.uri # editor THEN "WrongDocument"
  ELSE "none"

\* the 'revertChanges' message: handleRevert up to the await of the edit's
\* save.  The Revert button is never disabled.
RevertStart(p, activeEditor) ==
  /\ FreeSlot(p)
  /\ LET err == RevertError(lastAppliedBackup, activeEditor) IN
     IF err # "none"
     THEN /\ IF err = "NothingToRevert" THEN started' = started ELSE Counted
          /\ lastEvent' = Event("revertFailed", p,
                                [Idle EXCEPT !.kind = "revert",
                                             !.doc = activeEditor],
                                err, <<>>)
          /\ UNCHANGED <<docs, dirty, procs>>
     ELSE /\ Counted
          /\ docs' = [docs EXCEPT ![activeEditor] = lastAppliedBackup.content]
          /\ dirty' = [dirty EXCEPT ![activeEditor] = TRUE]
          /\ procs' = [procs EXCEPT ![p] =
               AwaitSave([Idle EXCEPT !.kind = "revert",
                                      !.doc = activeEditor,
                                      !.updated = lastAppliedBackup.content])]
          /\ lastEvent' = Event("revertApplied", p, procs'[p], "none", <<>>)
  /\ UNCHANGED <<lastAppliedBackup>>

\* variant: a revert that keeps its record
ClearBackupNot(ledger) == ledger

\* the ledger once a revert's edit is saved: lastAppliedBackup = null
ClearBackup(ledger) == Null

\* `await document.save()` returns: the rest of the handler up to its next
\* await or its end
SaveDone(p) ==
  /\ procs[p].pc = "save"
  /\ dirty' = [dirty EXCEPT ![procs[p].doc] = FALSE]
  /\ LET run == [procs[p] EXCEPT !.unsaved = FALSE] IN
     CASE run.kind = "revert" ->
            /\ lastAppliedBackup' = ClearBackup(lastAppliedBackup)
            /\ procs' = [procs EXCEPT ![p] = Idle]
            /\ lastEvent' = Event("revertDone", p, run, "reverted", <<>>)
       [] run.kind = "command" ->
            /\ lastAppliedBackup' = lastAppliedBackup
            /\ procs' = [procs EXCEPT ![p] = Idle]
            /\ lastEvent' = Event("saved", p, run, "status", <<>>)
       [] run.kind = "sidebar" /\ run.path = "single" ->
            /\ lastAppliedBackup' = lastAppliedBackup
            /\ procs' = [procs EXCEPT ![p] = Idle]
            /\ lastEvent' = Event("saved", p, run, "diff",
                                [old |-> run.fileText, new |-> run.updated])
       [] run.kind = "sidebar" /\ run.path = "chunked" ->
            /\ lastAppliedBackup' = lastAppliedBackup
            /\ Advance(p, run, docs[run.doc], "saved")
  /\ UNCHANGED <<docs, started>>

\* The 'getModels' and 'saveCredentials' messages: their handlers read
\* the configuration, list the models or store the credentials, and post
\* what they did.  Like the Run button, their buttons are disabled while
\* the webview is loading.
OtherMessage(p, type) ==
  /\ FreeSlot(p)
  /\ RunBtnEnabled
  /\ Counted
  /\ lastEvent' = Event(type, p, Idle, "status", <<>>)
  /\ UNCHANGED <<docs, dirty, lastAppliedBackup, procs>>

\* The handlers with the settings as installed: no model selected in the
\* webview, no additional rules, every listing returning and the picker
\* dismissed; endpoint and token present or missing.
Next ==
  \/ \E p \in Procs, e \in Editors :
       RunStart(p, e, NoSelection) /\ UNCHANGED calc
  \/ \E p \in Procs, cfg \in Configs(DefaultRules) :
       RunConfig(p, cfg) /\ UNCHANGED calc
  \/ \E p \in Procs, e \in Editors, cfg \in Configs(DefaultRules) :
       CmdStart(p, e, cfg) /\ UNCHANGED calc
  \/ \E p \in Procs, l \in DefaultListings :
       RunListed(p, l) /\ UNCHANGED calc
  \/ \E p \in Procs : CallReturn(p) /\ UNCHANGED calc
  \/ \E p \in Procs, e \in Editors : RevertStart(p, e) /\ UNCHANGED calc
  \/ \E p \in Procs : SaveDone(p) /\ UNCHANGED calc
  \/ \E p \in Procs, type \in {"getModels", "saveCredentials"} :
       OtherMessage(p, type) /\ UNCHANGED calc

Spec == Init /\ [][Next]_vars

\* a handler suspended at an await goes on: the promise it awaits settles
\* (the secret is read, the model list, the completion call and the save
\* return or throw) and the extension host runs the continuation
Resume(p) ==
  /\ \/ \E cfg \in Configs(DefaultRules) : RunConfig(p, cfg)
     \/ \E l \in DefaultListings : RunListed(p, l)
     \/ CallReturn(p)
     \/ SaveDone(p)
  /\ UNCHANGED calc

\* the handlers when every awaited promise settles
LiveSpec == Spec /\ \A p \in Procs : WF_vars(Resume(p))

\* The same handlers when the callers serialize them: a message or command
\* is handled only once every earlier handler has ended.
Quiet == \A q \in Procs : procs[q].pc = "idle"

SerialNext ==
  \/ \E p \in Procs, e \in Editors :
       Quiet /\ RunStart(p, e, NoSelection) /\ UNCHANGED calc
  \/ \E p \in Procs, cfg \in Configs(DefaultRules) :
       RunConfig(p, cfg) /\ UNCHANGED calc
  \/ \E p \in Procs, e \in Editors, cfg \in Configs(DefaultRules) :
       Quiet /\ CmdStart(p, e, cfg) /\ UNCHANGED calc
  \/ \E p \in Procs, l \in DefaultListings :
       RunListed(p, l) /\ UNCHANGED calc
  \/ \E p \in Procs : CallReturn(p) /\ UNCHANGED calc
  \/ \E p \in Procs, e \in Editors :
       Quiet /\ RevertStart(p, e) /\ UNCHANGED calc
  \/ \E p \in Procs : SaveDone(p) /\ UNCHANGED calc
  \/ \E p \in Procs, type \in {"getModels", "saveCredentials"} :
       Quiet /\ OtherMessage(p, type) /\ UNCHANGED calc

SerialSpec == Init /\ [][SerialNext]_vars

\* the serialized handlers when every awaited promise settles
SerialLiveSpec == SerialSpec /\ \A p \in Procs : WF_vars(Resume(p))

\* The serialized handlers under every setting: a model selected in the
\* webview or none, rules stored or not, and every way the listing phase
\* can go.
SettingsNext ==
  \/ \E p \in Procs, e \in Editors, sel \in {NoSelection, Selected} :
       Quiet /\ RunStart(p, e, sel) /\ UNCHANGED calc
  \/ \E p \in Procs, cfg \in Configs(RulesTexts) :
       RunConfig(p, cfg) /\ UNCHANGED calc
  \/ \E p \in Procs, e \in Editors, cfg \in Configs(RulesTexts) :
       Quiet /\ CmdStart(p, e, cfg) /\ UNCHANGED calc
  \/ \E p \in Procs, l \in Listings : RunListed(p, l) /\ UNCHANGED calc
  \/ \E p \in Procs : CallReturn(p) /\ UNCHANGED calc
  \/ \E p \in Procs, e \in Editors :
       Quiet /\ RevertStart(p, e) /\ UNCHANGED calc
  \/ \E p \in Procs : SaveDone(p) /\ UNCHANGED calc
  \/ \E p \in Procs, type \in {"getModels", "saveCredentials"} :
       Quiet /\ OtherMessage(p, type) /\ UNCHANGED calc

SettingsSpec == Init /\ [][SettingsNext]_vars

----------------------------------------------------------------------------
\* The functions of the code taken alone: an argument tuple is drawn, then
\* the function is applied to it.

\* arguments explored for the planner
MaxTotalLines == 7
MaxChunkLines == 4

PlanInputs ==
  { [fn |-> "plan",
     in |-> [totalLines |-> t, maxChunkLines |-> m],
     out |-> <<>>, done |-> FALSE] :
      t \in 0..MaxTotalLines, m \in 1..MaxChunkLines }

\* the planning loop run on the drawn arguments
Plan ==
  /\ calc.fn = "plan" /\ ~calc.done
  /\ calc' = [calc EXCEPT
       !.out = PlanChunks(calc.in.totalLines, calc.in.maxChunkLines),
       !.done = TRUE]
  /\ UNCHANGED <<docs, dirty, lastAppliedBackup, procs, started, lastEvent>>

\* texts explored for the parser: model texts of up to MaxTextLen lines of
\* prose, blank, code and fence lines, originals of up to MaxOriginalLen
\* lines
MaxTextLen == 4
MaxOriginalLen == 2

TextsOver(alphabet, n) == UNION { [1..k -> alphabet] : k \in 0..n }

\* model texts with more lines before the block than a summary keeps,
\* blank lines among them, and with prose after the block
LongTexts ==
  { Rep("s", SummaryMaxLines + 1) \o Fenced(<<"b">>),
    Rep("s", SummaryMaxLines) \o <<"", "">> \o Fenced(<<"b">>)
      \o <<"a">>,
    <<"">> \o Rep("s", SummaryMaxLines + 1) \o <<"">> \o Fenced(<<"a">>) }

\* model texts with a fence whose tag is not alphanumeric: opening the
\* only block, opening the first of two blocks, and closing a block
TaggedTexts ==
  { <<"~~~c+", "b", "~~~">>,
    <<"s", "~~~c+", "b", "~~~", "s", "~~~kt", "a", "~~~">>,
    <<"s", "~~~kt", "b", "~~~c+", "s">> }

ParseInputs ==
  { [fn |-> "parse",
     in |-> [modelText |-> t, original |-> o],
     out |-> <<>>, done |-> FALSE] :
      t \in TextsOver({"s", "", "a"} \cup AlnumFences, MaxTextLen)
               \cup LongTexts \cup TaggedTexts,
      o \in TextsOver({"a", ""}, MaxOriginalLen) }

\* the parser run on the drawn arguments
Parse ==
  /\ calc.fn = "parse" /\ ~calc.done
  /\ calc' = [calc EXCEPT
       !.out = extractUpdatedFileAndSummary(calc.in.modelText,
                                            calc.in.original),
       !.done = TRUE]
  /\ UNCHANGED <<docs, dirty, lastAppliedBackup, procs, started, lastEvent>>

\* remotes explored for the client: a first response of any status, body
\* length and content kind, and a second response
ClientResponses ==
  { Http(st, b, j) :
      st \in {200, 204, 401, 403, 500},
      b \in TextsOver({"x"}, BodyExcerptMax + 1),
      j \in { Json(k, <<>>) : k \in {"invalid", "missing", "empty",
                                      "nonstring"} }
           \cup { Json("string", <<"s">>) } }

SecondResponses ==
  { Http(200, <<>>, Json("string", <<"b">>)),
    Http(500, <<"x">>, Json("missing", <<>>)) }

ClientInputs ==
  { [fn |-> "client", in |-> <<r1, r2>>, out |-> <<>>, done |-> FALSE] :
      r1 \in ClientResponses, r2 \in SecondResponses }

\* the client run against the drawn remote
Client ==
  /\ calc.fn = "client" /\ ~calc.done
  /\ calc' = [calc EXCEPT !.out = callCodyApi(calc.in), !.done = TRUE]
  /\ UNCHANGED <<docs, dirty, lastAppliedBackup, procs, started, lastEvent>>

\* texts explored for the diff: up to MaxDiffLines lines, the last one
\* empty when the text ends with a newline
MaxDiffLines == 3

DiffTexts == TextsOver({"a", "b", ""}, MaxDiffLines) \ {<<>>}

DiffInputs ==
  { [fn |-> "diff", in |-> [oldText |-> o, newText |-> n],
     out |-> <<>>, done |-> FALSE] : o \in DiffTexts, n \in DiffTexts }

\* const parts = diffLines(oldText, newText)
Diff ==
  /\ calc.fn = "diff" /\ ~calc.done
  /\ calc' = [calc EXCEPT !.out = diffLines(calc.in.oldText, calc.in.newText),
                          !.done = TRUE]
  /\ UNCHANGED <<docs, dirty, lastAppliedBackup, procs, started, lastEvent>>

\* remotes explored for the listing: a data array of up to MaxModels
\* entries with and without id and owner, a response without an array, a
\* body that is not JSON, and non-success statuses with bodies up to and
\* beyond the excerpt
MaxModels == 3

ModelEntries == [id : {"", "m", "n"}, owned_by : {"", "o"}]

ListingResponses ==
  { Http(st, <<>>, Json("array", d)) :
      st \in {200}, d \in TextsOver(ModelEntries, MaxModels) }
  \cup { Http(st, b, Json(k, <<>>)) :
           st \in {200, 401, 500},
           b \in TextsOver({"x"}, ModelsExcerptMax + 1),
           k \in {"noarray", "invalid"} }

ListInputs ==
  { [fn |-> "models", in |-> <<r, r>>, out |-> <<>>, done |-> FALSE] :
      r \in ListingResponses }

\* listModels run against the drawn remote
List ==
  /\ calc.fn = "models" /\ ~calc.done
  /\ calc' = [calc EXCEPT !.out = listModels(calc.in), !.done = TRUE]
  /\ UNCHANGED <<docs, dirty, lastAppliedBackup, procs, started, lastEvent>>

PureInit ==
  Loaded /\ calc \in PlanInputs \cup ParseInputs \cup ClientInputs
                      \cup DiffInputs \cup ListInputs

PureNext == Plan \/ Parse \/ Client \/ Diff \/ List

PureSpec == PureInit /\ [][PureNext]_vars

\* The handlers and the functions taken alone, side by side: a behaviour is
\* one of the handlers or the evaluation of one function.
FullInit ==
  Loaded /\ calc \in {NoCalc} \cup PlanInputs \cup ParseInputs
                      \cup ClientInputs \cup DiffInputs \cup ListInputs

FullNext == (calc = NoCalc /\ Next) \/ PureNext

FullSpec == FullInit /\ [][FullNext]_vars

----------------------------------------------------------------------------
\* Properties

IsRun(r) == r.kind \in {"sidebar", "command"}

\* the last step ended a run (with an error, a diff, a raw text, ...)
RunEnded == IsRun(lastEvent.run) /\ lastEvent.outcome # "none"

\* the step is one of handler p resuming from a completion call
ReturnsFromCall(p) == procs[p].pc = "call" /\ procs'[p] # procs[p]

\* the step handles a newly arrived 'revertChanges' message
RevertArrives == lastEvent'.type \in {"revertFailed", "revertApplied"}

\* C1: from the first chunk edit of a chunked run until the run ends, the
\* ledger holds that run's document and that run's pre-run text, whatever
\* runs and reverts preceded it.  Stated for serialized handlers.
C1_LedgerHoldsRunSnapshot ==
  /\ \A p \in Procs :
       (procs[p].path = "chunked" /\ procs[p].applied >= 1)
          => lastAppliedBackup = BackupOf(procs[p])
  /\ (RunEnded /\ lastEvent.run.path = "chunked" /\ lastEvent.run.applied >= 1)
          => lastAppliedBackup = BackupOf(lastEvent.run)

C2_ReplacedWitness ==
  /\ lastEvent.type = "applied"
  /\ lastEvent.run.path = "single"
  /\ lastEvent.run.fileText # InitialText(lastEvent.run.doc)
  /\ lastAppliedBackup = BackupOf(lastEvent.run)

C4_RevertFailuresChangeNothing ==
  [][RevertArrives =>
       /\ lastAppliedBackup = Null => lastEvent'.outcome = "NothingToRevert"
       /\ (lastAppliedBackup # Null /\ lastEvent'.run.doc \in DocIds
              /\ lastEvent'.run.doc # lastAppliedBackup.uri)
            => lastEvent'.outcome = "WrongDocument"
       /\ lastEvent'.outcome \in {"NothingToRevert", "WrongDocument"}
            => lastEvent'.type = "revertFailed"
       /\ lastEvent'.type = "revertFailed"
            => /\ docs' = docs
               /\ dirty' = dirty
               /\ lastAppliedBackup' = lastAppliedBackup]_vars

\* a revert has failed because another document than the ledger's is active
C4_Witness ==
  /\ lastEvent.type = "revertFailed"
  /\ lastEvent.outcome = "WrongDocument"
  /\ lastAppliedBackup # Null
  /\ lastAppliedBackup.uri # lastEvent.run.doc

\* C5: in a chunked run, a completion call that fails at chunk i, or an
\* edit range that cannot be built, ends the run in that step: no later
\* chunk gets a call or an edit, nothing is written, and the run reports
\* the error.
C5_ErrorAbortsRemainingChunks ==
  [][\A p \in Procs :
       (ReturnsFromCall(p) /\ procs[p].path = "chunked"
           /\ (~lastEvent'.run.reply.ok \/ lastEvent'.type = "rangeError"))
         => /\ procs'[p] = Idle
            /\ lastEvent'.outcome = "error"
            /\ docs' = docs
            /\ lastAppliedBackup' = lastAppliedBackup]_vars

\* a chunked run has been aborted by a failed call at a chunk that is not
\* the last one, after an applied edit
C5_Witness ==
  /\ lastEvent.type = "callFailed"
  /\ lastEvent.run.path = "chunked"
  /\ lastEvent.run.applied >= 1
  /\ lastEvent.run.i + 1 < NumChunks(lastEvent.run)
  /\ procs[lastEvent.proc] = Idle

\* C6: every edit applied before an aborting chunk stays in the document:
\* when the run ends with the error, the document holds what it held right
\* after the run's last applied edit (or, an explicit revert excepted, the
\* pre-run text).
C6_AbortKeepsAppliedEdits ==
  (/\ lastEvent.type \in {"callFailed", "rangeError"}
   /\ lastEvent.run.path = "chunked"
   /\ lastEvent.run.applied >= 1)
     => docs[lastEvent.run.doc]
           \in {lastEvent.run.lastWritten, lastEvent.run.fileText}

\* a reply without valid updated content for the chunk: no fence line at
\* all, or a block that is empty or equal to the chunk after trimming
LacksValidContent(text, chunk) ==
  \/ \A k \in DOMAIN text : text[k] \notin Fences
  \/ \E n \in 0..(Len(text) - 3) :
       LET body == SubSeq(text, 3, 2 + n) IN
       /\ text = Fenced(body)
       /\ Trim(body) = <<>> \/ Trim(body) = Trim(chunk)

\* C7: a chunk whose reply holds no valid updated content is skipped: the
\* step writes neither the document nor the ledger, is not an error, and
\* the run goes on with the next chunk's call or, after the last chunk,
\* ends with the diff.
C7_ChunkWithoutUpdateIsSkipped ==
  [][\A p \in Procs :
       (/\ ReturnsFromCall(p)
        /\ procs[p].path = "chunked"
        /\ lastEvent'.run.reply.ok
        /\ LacksValidContent(lastEvent'.run.reply.text, procs[p].promptText))
         => /\ lastEvent'.type = "skipped"
            /\ lastEvent'.outcome # "error"
            /\ docs' = docs
            /\ lastAppliedBackup' = lastAppliedBackup
            /\ IF (procs[p].i + 1) * CHUNK_MAX_LINES < procs[p].totalLines
               THEN /\ procs'[p].pc = "call"
                    /\ procs'[p].i = procs[p].i + 1
                    /\ procs'[p].applied = procs[p].applied
               ELSE /\ procs'[p] = Idle
                    /\ lastEvent'.outcome = "diff"]_vars

\* a chunk after an applied one has been skipped on a block equal to the
\* chunk, and the run is in the next chunk's call
C7_Witness ==
  /\ lastEvent.type = "skipped"
  /\ lastEvent.run.applied >= 1
  /\ lastEvent.run.reply.text = Fenced(lastEvent.run.promptText)
  /\ procs[lastEvent.proc].pc = "call"
  /\ procs[lastEvent.proc].i = lastEvent.run.i + 1

\* C8: a chunked run has at most one completion call in flight, and no call
\* is in flight while an edit of the run awaits its save.
C8_ChunksStrictlySequential ==
  \A p \in Procs :
    procs[p].path = "chunked"
      => /\ procs[p].calls <= 1
         /\ procs[p].calls = 1 <=> procs[p].pc = "call"
         /\ procs[p].unsaved <=> procs[p].pc = "save"
         /\ procs[p].applied <= procs[p].i + 1

\* the call of a later chunk is in flight after an edit was applied and saved
C8_Witness ==
  \E p \in Procs :
    /\ procs[p].path = "chunked"
    /\ procs[p].pc = "call"
    /\ procs[p].i >= 1
    /\ procs[p].applied >= 1
    /\ procs[p].calls = 1
    /\ ~procs[p].unsaved

\* C9: the text sent for chunk i is lines [start_i, end_i) of the document
\* as it is when chunk i begins, not of the text read at run start.
C9_ChunkTextFromLiveDocument ==
  \A p \in Procs :
    (/\ procs[p].path = "chunked"
     /\ procs[p].pc = "call"
     /\ lastEvent.proc = p
     /\ lastEvent.type \in {"call", "skipped", "saved"})
      => procs[p].promptText =
           SubSeq(docs[procs[p].doc],
                  procs[p].i * CHUNK_MAX_LINES + 1,
                  Min(Min((procs[p].i + 1) * CHUNK_MAX_LINES,
                          procs[p].totalLines),
                      Len(docs[procs[p].doc])))

\* a chunk has begun whose lines in the live document differ from the same
\* lines of the text read at run start
C9_Witness ==
  \E p \in Procs :
    /\ procs[p].path = "chunked"
    /\ procs[p].pc = "call"
    /\ lastEvent.proc = p
    /\ lastEvent.type = "saved"
    /\ procs[p].promptText #
         SubSeq(procs[p].fileText,
                procs[p].i * CHUNK_MAX_LINES + 1,
                Min((procs[p].i + 1) * CHUNK_MAX_LINES, procs[p].totalLines))

\* C10: while a run on document d is in progress, the handler of a
\* 'revertChanges' message or of a second 'makeAccessible' message changes
\* neither d nor the ledger.
C10_RunIsSoleWriter ==
  [][\A p \in Procs :
       (/\ IsRun(procs[p])
        /\ \/ RevertArrives
           \/ \E q \in Procs \ {p} :
                /\ procs[q].kind \in {"revert", "sidebar"}
                /\ procs'[q] # procs[q])
         => /\ docs'[procs[p].doc] = docs[procs[p].doc]
            /\ lastAppliedBackup' = lastAppliedBackup]_vars

\* C11: at most one unrecovered run state is outstanding: every document
\* that holds edits of runs not yet reverted is the document of the held
\* record, and the record's text is that document's content before those
\* edits.  Stated for serialized handlers.
C11_SingleSlotCoversEveryEditedDocument ==
  \A d \in DocIds :
    docs[d] # InitialText(d)
      => lastAppliedBackup = [uri |-> d, content |-> InitialText(d)]

\* a planner evaluation that has returned
Planned == calc.fn = "plan" /\ calc.done

\* C12: for totalLines >= 0 and maxChunkLines >= 1 the planned ranges are
\* ordered by start, contiguous from 0, pairwise disjoint, and their union
\* is exactly [0, totalLines).
C12_PlanPartitionsTheDocument ==
  Planned =>
    LET r == calc.out
        n == Len(r)
        total == calc.in.totalLines
        Lines(k) == { x \in 0..(total + MaxChunkLines) :
                        r[k].start <= x /\ x < r[k].end }
    IN /\ n > 0 => r[1].start = 0
       /\ \A k \in 1..(n - 1) :
            r[k + 1].start = r[k].end /\ r[k].start < r[k + 1].start
       /\ \A j, k \in 1..n : j # k => Lines(j) \cap Lines(k) = {}
       /\ UNION { Lines(k) : k \in 1..n } = 0..(total - 1)

\* a plan of three or more ranges whose last range is shorter
C12_Witness ==
  /\ Planned
  /\ Len(calc.out) >= 3
  /\ calc.in.totalLines % calc.in.maxChunkLines # 0

\* C13: the plan has ceil(totalLines / maxChunkLines) ranges, the k-th
\* being [k*max, min((k+1)*max, totalLines)): none empty, none longer than
\* max, all but the last of exactly max lines, none at all for 0 lines; 650
\* lines by 300 give [0,300), [300,600), [600,650).
C13_PlanIsCeilingManyFullRanges ==
  /\ Planned =>
       LET r == calc.out
           n == Len(r)
           total == calc.in.totalLines
           max == calc.in.maxChunkLines
       IN /\ n = (total + max - 1) \div max
          /\ \A k \in 1..n :
               /\ r[k] = [start |-> (k - 1) * max, end |-> Min(k * max, total)]
               /\ r[k].end - r[k].start >= 1
               /\ r[k].end - r[k].start <= max
               /\ k < n => r[k].end - r[k].start = max
          /\ total = 0 => r = <<>>
  /\ PlanChunks(650, 300) = << [start |-> 0, end |-> 300],
                               [start |-> 300, end |-> 600],
                               [start |-> 600, end |-> 650] >>

\* a plan whose line count is a multiple of the chunk length, two ranges or
\* more
C13_Witness ==
  /\ Planned
  /\ calc.in.totalLines % calc.in.maxChunkLines = 0
  /\ Len(calc.out) >= 2

\* the number of ranges planned for a document of n lines
RangesOf(n) == (n + CHUNK_MAX_LINES - 1) \div CHUNK_MAX_LINES

\* what C14 says of a sidebar run that has chosen its path
PathAsLineCountSays(run) ==
  /\ run.path = "single" <=> run.totalLines <= CHUNK_MAX_LINES
  /\ run.path = "chunked" <=> run.totalLines > CHUNK_MAX_LINES
  /\ run.path = "single"
       => run.issued = 1 /\ run.promptText = run.fileText
  /\ run.path = "chunked"
       => /\ RangesOf(run.totalLines) >= 2
          /\ run.issued <= RangesOf(run.totalLines)
          /\ run.issued = run.i + 1

\* C14: a sidebar run is single-shot, with exactly one completion call
\* over the whole text it read, iff the document's line count is at most
\* CHUNK_MAX_LINES; otherwise it is chunked, with two ranges or more and at
\* most one call per range.
C14_PathChosenByLineCount ==
  /\ \A p \in Procs :
       (procs[p].kind = "sidebar" /\ procs[p].path # "none")
          => PathAsLineCountSays(procs[p])
  /\ (lastEvent.run.kind = "sidebar" /\ lastEvent.run.path # "none")
          => PathAsLineCountSays(lastEvent.run)

\* a document of CHUNK_MAX_LINES + 1 lines is in the chunk loop, at its
\* second range
C14_Witness ==
  \E p \in Procs :
    /\ procs[p].kind = "sidebar"
    /\ procs[p].path = "chunked"
    /\ procs[p].totalLines = CHUNK_MAX_LINES + 1
    /\ procs[p].issued = 2

\* a document of exactly CHUNK_MAX_LINES lines has ended a single-shot run
C14_SingleWitness ==
  /\ lastEvent.run.kind = "sidebar"
  /\ lastEvent.run.path = "single"
  /\ lastEvent.run.totalLines = CHUNK_MAX_LINES
  /\ lastEvent.outcome = "diff"

\* C15: a single-shot run that began on an empty ledger and whose reply
\* holds a valid updatedContent captures the record {document, pre-run
\* text} in the step that writes the document, and when the run ends the
\* document's whole content is updatedContent and it is saved.
C15_SingleShotReplacesWholeDocument ==
  (/\ lastEvent.run.kind = "sidebar"
   /\ lastEvent.run.path = "single"
   /\ lastEvent.run.ledgerAtStart = Null
   /\ lastEvent.type \in {"applied", "saved"})
     => /\ docs[lastEvent.run.doc] = lastEvent.run.updated
        /\ lastEvent.run.applied = 1
        /\ lastEvent.type = "applied"
             => lastAppliedBackup = BackupOf(lastEvent.run)
        /\ lastEvent.type = "saved" => ~dirty[lastEvent.run.doc]

\* C16: a run all of whose model responses lack a fenced block applies no
\* edit (at its end the document and the ledger are what they were at its
\* start) and its outcome is the raw model text, verbatim: not a diff, not
\* an error.  Stated for serialized handlers.
C16_FencelessRunSurfacesRawText ==
  (/\ RunEnded
   /\ lastEvent.run.kind = "sidebar"
   /\ lastEvent.run.issued >= 1
   /\ lastEvent.run.fenceless)
     => /\ docs[lastEvent.run.doc] = lastEvent.run.fileText
        /\ lastAppliedBackup = lastEvent.run.ledgerAtStart
        /\ lastEvent.run.applied = 0
        /\ lastEvent.outcome = "raw"
        /\ lastEvent.payload = lastEvent.run.reply.text

\* a parser evaluation that has returned
Parsed == calc.fn = "parse" /\ calc.done

\* the fenced blocks of a text as the parser's pattern reads them: an
\* opening fence line and a later fence line with at least one line between
\* them
Blocks(t) ==
  { oc \in (1..Len(t)) \X (1..Len(t)) :
      IsOpener(t[oc[1]]) /\ t[oc[2]] \in Fences /\ oc[2] >= oc[1] + 2 }

\* the body of the first fenced block: leftmost opener, nearest closer
FirstBody(t) ==
  LET o == CHOOSE x \in { oc[1] : oc \in Blocks(t) } :
             \A y \in { oc[1] : oc \in Blocks(t) } : x <= y
      c == CHOOSE x \in { oc[2] : oc \in { b \in Blocks(t) : b[1] = o } } :
             \A y \in { oc[2] : oc \in { b \in Blocks(t) : b[1] = o } } :
               x <= y
  IN SubSeq(t, o + 1, c - 1)

C18_DiffOfSnapshotAgainstLiveText ==
  [][\A p \in Procs :
       (procs[p].path = "chunked" /\ procs'[p] # procs[p])
         => /\ lastEvent'.outcome = "diff"
                 <=> /\ procs'[p] = Idle
                     /\ lastEvent'.type \in {"skipped", "saved"}
            /\ lastEvent'.outcome = "diff"
                 => /\ procs[p].i = RangesOf(procs[p].totalLines) - 1
                    /\ lastEvent'.payload.old = procs[p].fileText
                    /\ lastEvent'.payload.new = docs'[procs[p].doc]]_vars

\* a chunked run has ended with its diff after an applied chunk and a
\* skipped last chunk, the live text differing from the last replacement
C18_Witness ==
  /\ lastEvent.outcome = "diff"
  /\ lastEvent.run.path = "chunked"
  /\ lastEvent.type = "skipped"
  /\ lastEvent.run.applied >= 1
  /\ lastEvent.payload.new = docs[lastEvent.run.doc]
  /\ lastEvent.payload.new # lastEvent.run.updated
  /\ lastEvent.payload.new # lastEvent.payload.old

\* C19: the summary at the end of a completed chunked run carries the
\* number of chunks whose replacement was written in this run; skipped
\* chunks are not counted.
C19_SummaryCountsAppliedChunks ==
  (lastEvent.outcome = "diff" /\ lastEvent.run.path = "chunked")
     => lastEvent.payload.chunksReported = lastEvent.run.applied

\* C20: a chunked run goes Idle -> Planning -> ProcessingChunk(0..n-1) ->
\* Reconciling -> Done: it enters the chunk loop from planning at chunk 0,
\* every step stays in the chunk or moves to the next one, the diff is
\* reached only after chunk n-1, and the run is aborted only out of a
\* chunk because a completion call or the parser failed.  Stated for
\* serialized handlers.
C20_ChunkedRunStateMachine ==
  [][\A p \in Procs :
       /\ (procs[p].path # "chunked" /\ procs'[p].path = "chunked")
            => /\ procs[p].pc = "listing"
               /\ procs'[p].pc = "call"
               /\ procs'[p].i = 0
       /\ (procs[p].path = "chunked" /\ procs'[p] # procs[p])
            => \/ /\ procs'[p].path = "chunked"
                  /\ procs[p].pc = "call" /\ procs'[p].pc = "save"
                  /\ procs'[p].i = procs[p].i
               \/ /\ procs'[p].path = "chunked"
                  /\ procs'[p].pc = "call"
                  /\ procs'[p].i = procs[p].i + 1
                  /\ procs'[p].i < RangesOf(procs[p].totalLines)
               \/ /\ procs'[p] = Idle
                  /\ lastEvent'.outcome = "diff"
                  /\ procs[p].i = RangesOf(procs[p].totalLines) - 1
               \/ /\ procs'[p] = Idle
                  /\ lastEvent'.outcome = "error"
                  /\ procs[p].pc = "call"
                  /\ ~lastEvent'.run.reply.ok]_vars

\* a client evaluation that has returned
Called == calc.fn = "client" /\ calc.done

\* what C21 says of a run: every completion call that has returned sent
\* one HTTP request, and the calls made are one for the whole file, or one
\* for each chunk begun so far
OneRequestPerCall(run) ==
  /\ run.requests = run.issued - run.calls
  /\ run.path = "none" => run.issued = 0
  /\ run.path = "single" => run.issued = 1
  /\ run.path = "chunked" => run.issued = run.i + 1

\* C21: a call of the client sends exactly one HTTP request, and its
\* failure is the call's failure; a run makes at most one completion call
\* for the whole file (single-shot) or for each chunk, and a call that fails
\* ends the run without another request.
C21_ClientNeverRetries ==
  /\ Called =>
       /\ calc.out.requests = 1
       /\ ~ResponseOk(calc.in[1])
            => ~calc.out.ok /\ calc.out.error.status = calc.in[1].status
  /\ \A p \in Procs : IsRun(procs[p]) => OneRequestPerCall(procs[p])
  /\ IsRun(lastEvent.run) => OneRequestPerCall(lastEvent.run)
  /\ lastEvent.type = "callFailed"
       => /\ procs[lastEvent.proc] = Idle
          /\ lastEvent.run.calls = 0
          /\ lastEvent.run.requests = lastEvent.run.issued

\* a chunked run has ended on a failed request for its second chunk, two
\* requests sent in all
C21_Witness ==
  /\ lastEvent.type = "callFailed"
  /\ lastEvent.run.path = "chunked"
  /\ lastEvent.run.i = 1
  /\ lastEvent.run.reply.error.status = 500
  /\ lastEvent.run.requests = 2

\* a call has failed on a non-success response that a success would follow
C21_ClientWitness ==
  /\ Called
  /\ calc.in[1].status = 500
  /\ calc.in[2].status = 200
  /\ ~calc.out.ok

\* the statuses by which a remote refuses the credentials
AuthStatus(status) == status \in {401, 403}

\* what tells one error of the client from another, the values put into
\* its message apart
KindOf(result) == IF result.ok THEN "none" ELSE result.error.template

\* C22: the client fails with an AuthError on an authorization-failure
\* status, of another kind than the RemoteError it fails with on any other
\* non-success status, which carries the status and the truncated body; it
\* fails with a ProtocolError, a third kind, on a success response without
\* message content; it returns the content only for a success response
\* whose content is a non-empty string.
C22_ThreeErrorKinds ==
  Called =>
    LET r      == calc.in[1]
        out    == calc.out
        remote == callCodyApi(<<Http(500, r.body, r.json), calc.in[2]>>)
        proto  == callCodyApi(<<Http(200, r.body, Json("missing", <<>>)),
                                calc.in[2]>>)
    IN /\ AuthStatus(r.status)
            => ~out.ok /\ KindOf(out) \notin {KindOf(remote), KindOf(proto)}
       /\ (~ResponseOk(r) /\ ~AuthStatus(r.status))
            => /\ ~out.ok
               /\ KindOf(out) = KindOf(remote)
               /\ out.error.status = r.status
               /\ out.error.excerpt = FirstLines(r.body, BodyExcerptMax)
       /\ (ResponseOk(r) /\ r.json.kind = "missing")
            => /\ ~out.ok
               /\ KindOf(out) = KindOf(proto)
               /\ KindOf(proto) # KindOf(remote)
       /\ out.ok
            => /\ ResponseOk(r)
               /\ r.json.kind = "string"
               /\ r.json.content # <<>>
               /\ out.text = r.json.content

\* C23: an error raised by the client during a run (the parser raises
\* none) ends the run with an error outcome that carries the endpoint, the
\* model id in use and the error's message as the client gave it, whichever
\* entry point started the run.  Stated for serialized handlers.
C23_ErrorOutcomeCarriesContext ==
  (IsRun(lastEvent.run) /\ lastEvent.type = "callFailed")
     => /\ lastEvent.outcome = "error"
        /\ DOMAIN lastEvent.payload = {"endpoint", "model", "message"}
        /\ lastEvent.payload.endpoint = Endpoint
        /\ lastEvent.payload.model = ModelId
        /\ lastEvent.payload.message = lastEvent.run.reply.error

\* the last step was one of a sidebar run that had passed the editor and
\* configuration checks
PastChecks ==
  /\ lastEvent.run.kind = "sidebar"
  /\ lastEvent.run.pc \in {"listing", "call", "save"}

\* C24: a sidebar run that has passed the editor and configuration checks
\* reports an outcome in the step that ends it and in no other step, and
\* the outcome is one of: a diff against the text the run read, the raw
\* model text of a run that applied nothing, an error.
C24_ExactlyOneOutcome ==
  PastChecks =>
    /\ procs[lastEvent.proc] = Idle
         <=> lastEvent.outcome \in {"diff", "raw", "error"}
    /\ procs[lastEvent.proc] # Idle => lastEvent.outcome = "none"
    /\ lastEvent.outcome = "diff"
         => /\ lastEvent.type \in {"saved", "skipped"}
            /\ lastEvent.payload.old = lastEvent.run.fileText
    /\ lastEvent.outcome = "raw"
         => /\ lastEvent.type = "noUpdate"
            /\ lastEvent.payload = lastEvent.run.reply.text
            /\ lastEvent.run.applied = 0
    /\ lastEvent.outcome = "error"
         => /\ lastEvent.type \in {"callFailed", "rangeError"}
            /\ lastEvent.payload.message # NoError

\* a sidebar run has ended with the raw model text as its only outcome
C24_Witness ==
  /\ PastChecks
  /\ procs[lastEvent.proc] = Idle
  /\ lastEvent.outcome = "raw"
  /\ lastEvent.payload # <<>>

\* C25: a record is discarded by a successful revert or by the start of a
\* new run: while a run is in progress and when it has ended, the ledger is
\* empty or holds the record of that run, never one captured by an earlier
\* run, so that a revert restores no earlier run's text.  Stated for
\* serialized handlers.
C25_RecordDiscardedAtRunStart ==
  /\ \A p \in Procs :
       IsRun(procs[p]) => lastAppliedBackup \in {Null, BackupOf(procs[p])}
  /\ RunEnded => lastAppliedBackup \in {Null, BackupOf(lastEvent.run)}

\* a diff evaluation that has returned
Diffed == calc.fn = "diff" /\ calc.done

\* the values of the segments not classified as `dropped`, concatenated
\* in the order of the segments
RECURSIVE ConcatValues(_, _)
ConcatValues(segments, dropped) ==
  IF segments = <<>> THEN <<>>
  ELSE (IF TagOf(Head(segments)) # dropped THEN Head(segments).value
        ELSE <<>>)
       \o ConcatValues(Tail(segments), dropped)

\* C26: for all texts oldText and newText, the values of the segments that
\* are not removed, concatenated in the order of the segments, are newText
\* exactly, and those of the segments that are not added are oldText exactly.
C26_DiffRoundTrip ==
  Diffed =>
    LET new == ConcatValues(calc.out, "removed")
        old == ConcatValues(calc.out, "added")
    IN /\ new = Tokens(calc.in.newText)
       /\ Join(new) = calc.in.newText
       /\ old = Tokens(calc.in.oldText)
       /\ Join(old) = calc.in.oldText
       /\ \A k \in DOMAIN calc.out :
            ~(calc.out[k].added /\ calc.out[k].removed)

\* a diff with an unchanged, a removed and an added segment, of two texts
\* of which only one ends with a newline
C26_Witness ==
  /\ Diffed
  /\ \E k \in DOMAIN calc.out : calc.out[k].added
  /\ \E k \in DOMAIN calc.out : calc.out[k].removed
  /\ \E k \in DOMAIN calc.out : TagOf(calc.out[k]) = "common"
  /\ calc.in.oldText[Len(calc.in.oldText)] = ""
  /\ calc.in.newText[Len(calc.in.newText)] # ""

\* the lines of the pre-run text that the plan gives to chunk i
PlannedLines(run, i) ==
  SubSeq(run.fileText, i * CHUNK_MAX_LINES + 1,
         Min((i + 1) * CHUNK_MAX_LINES, run.totalLines))

\* C27: in a chunked run without failures the prompt of chunk i holds the
\* lines of the pre-run document planned for chunk i and nothing else, so
\* that every pre-run line is sent in exactly one prompt and the range a
\* replacement overwrites holds no line written by an earlier chunk; in
\* particular no line written by a replacement is sent to the model again,
\* whatever number of lines the replacements have.  Stated for serialized
\* handlers.
C27_EveryLineInExactlyOneChunk ==
  \A p \in Procs :
    (procs[p].path = "chunked" /\ procs[p].pc = "call")
       => /\ procs[p].promptText = PlannedLines(procs[p], procs[p].i)
          /\ (\A k \in DOMAIN procs[p].fileText : procs[p].fileText[k] # "b")
               => \A k \in DOMAIN procs[p].promptText :
                    procs[p].promptText[k] # "b"

\* C28: a chunked run all of whose completion calls succeed ends with a
\* diff: no step of it fails on a chunk's text or on its replace range,
\* also when the live document has become shorter than the chunk's start
\* or end line.  Stated for serialized handlers.
C28_SucceedingCallsEndInDiff ==
  (RunEnded /\ lastEvent.run.path = "chunked" /\ lastEvent.run.reply.ok)
     => lastEvent.outcome = "diff"

\* a sidebar run is in progress
SidebarRunning == \E p \in Procs : procs[p].kind = "sidebar"

\* the last step began a sidebar run (the editor check passed or not)
SidebarBegan ==
  \/ lastEvent.type = "runStart" /\ lastEvent.run.kind = "sidebar"
  \/ lastEvent.type = "noEditor" /\ lastEvent.outcome = "status"

\* the last step ended a sidebar run
SidebarEnded ==
  \/ lastEvent.run.kind = "sidebar" /\ procs[lastEvent.proc] = Idle
  \/ lastEvent.type = "noEditor" /\ lastEvent.outcome = "status"

Has(posts, message) == \E k \in DOMAIN posts : posts[k] = message

\* what C29 says of every state: the first message of a sidebar run is
\* loading=true and no later step posts it; the step that ends the run, on
\* whichever path, posts loading=false as its last message and no earlier
\* step posts it; the webview is in the loading state exactly while a
\* sidebar run is in progress
LoadingBracketsTheRun ==
  /\ SidebarBegan => Head(lastEvent.posts) = Loading(TRUE)
  /\ ~SidebarBegan => ~Has(lastEvent.posts, Loading(TRUE))
  /\ SidebarEnded
       => /\ lastEvent.posts # <<>>
          /\ lastEvent.posts[Len(lastEvent.posts)] = Loading(FALSE)
  /\ ~SidebarEnded => ~Has(lastEvent.posts, Loading(FALSE))
  /\ lastEvent.loading <=> SidebarRunning

C30_LedgerFrame ==
  [][/\ lastAppliedBackup' # lastAppliedBackup
          => \/ /\ lastEvent'.type = "applied"
                /\ IsRun(lastEvent'.run)
                /\ lastAppliedBackup' = BackupOf(lastEvent'.run)
                /\ docs'[lastEvent'.run.doc] = lastEvent'.run.lastWritten
             \/ /\ lastEvent'.type = "revertDone"
                /\ lastAppliedBackup' = Null
     /\ lastEvent'.type \in {"skipped", "noUpdate", "callFailed",
                             "rangeError", "revertFailed", "call",
                             "getModels", "saveCredentials", "noEditor",
                             "noConfig"}
          => lastAppliedBackup' = lastAppliedBackup]_vars

\* a chunk after an applied one has been skipped, the ledger still holding
\* the record the run captured
C30_Witness ==
  /\ lastEvent.type = "skipped"
  /\ lastEvent.run.applied >= 1
  /\ lastAppliedBackup = BackupOf(lastEvent.run)

\* the models were listed while the ledger held a record
C30_ListingWitness ==
  /\ lastEvent.type = "getModels"
  /\ lastAppliedBackup # Null

\* the fenced blocks of a text as a reader sees them: a fence line with any
\* tag and the next fence line after it, with any number of lines between
FencedBlocks(t) ==
  { oc \in (1..Len(t)) \X (1..Len(t)) :
      /\ t[oc[1]] \in Fences /\ t[oc[2]] \in Fences /\ oc[1] < oc[2]
      /\ \A k \in (oc[1] + 1)..(oc[2] - 1) : t[k] \notin Fences }

\* the body of the first of them
FirstBlockBody(t) ==
  LET oc == CHOOSE b \in FencedBlocks(t) :
              \A other \in FencedBlocks(t) : b[1] <= other[1]
  IN SubSeq(t, oc[1] + 1, oc[2] - 1)

\* C34: when the model text holds one or more fenced blocks, the candidate
\* updatedContent is the body of the first block, whatever its tag, and
\* later blocks are ignored (the candidate is returned unless it is blank
\* or equal to the original after trimming); when the text holds no fenced
\* block, the parser returns raw = modelText and nothing else.
C34_CandidateIsFirstBlock ==
  Parsed =>
    LET t == calc.in.modelText
        orig == calc.in.original
    IN IF FencedBlocks(t) = {}
       THEN calc.out = NoUpdate(t)
       ELSE IF Trim(FirstBlockBody(t)) \in {<<>>, Trim(orig)}
       THEN calc.out = NoUpdate(t)
       ELSE /\ calc.out.hasUpdate
            /\ calc.out.updatedContent = FirstBlockBody(t)

\* the line of the opening fence of the block the parser has returned
MatchedOpener(t, updated) ==
  CHOOSE o \in 1..Len(t) :
    /\ IsOpener(t[o])
    /\ SubSeq(t, o + 1, o + Len(updated)) = updated
    /\ o + Len(updated) + 1 \in DOMAIN t
    /\ t[o + Len(updated) + 1] \in Fences
    /\ \A k \in 1..(o - 1) :
         ~(IsOpener(t[k]) /\ \E c \in (k + 2)..Len(t) : t[c] \in Fences)

\* the lines of t that are not empty, in their order
RECURSIVE NonEmptyLines(_)
NonEmptyLines(t) ==
  IF t = <<>> THEN <<>>
  ELSE (IF Head(t) = "" THEN <<>> ELSE <<Head(t)>>) \o NonEmptyLines(Tail(t))

C35_SuppressedWitness ==
  /\ Parsed
  /\ Blocks(calc.in.modelText) # {}
  /\ calc.in.modelText[1] = "s"
  /\ ~calc.out.hasUpdate
  /\ calc.out.summary = <<>>

\* a listing evaluation that has returned
Listed == calc.fn = "models" /\ calc.done

\* the places of the entries of data that have an id, in increasing order
RECURSIVE PlacesWithId(_, _)
PlacesWithId(data, from) ==
  IF from > Len(data) THEN <<>>
  ELSE (IF data[from].id # "" THEN <<from>> ELSE <<>>)
         \o PlacesWithId(data, from + 1)

C37_FailedWitness ==
  /\ Listed
  /\ ~calc.out.ok
  /\ calc.out.error.status = 401
  /\ Len(calc.in[1].body) > Len(calc.out.error.excerpt)
  /\ calc.out.error.excerpt # <<>>

\* C31: the command and the sidebar message behave the same on the same
\* document, model responses and ledger: in particular both take the
\* chunked path exactly when the document has more than CHUNK_MAX_LINES
\* lines.  Stated for serialized handlers.
C31_EntryPointsChooseSamePath ==
  \A p \in Procs :
    procs[p].path # "none" =>
      (procs[p].path = "chunked"
         <=> Len(procs[p].fileText) > CHUNK_MAX_LINES)

\* the step is the one of handler p that follows the reading of the secret
ReadsConfig(p) == procs[p].pc = "secrets" /\ procs'[p] # procs[p]

Names(report, value) == \E k \in DOMAIN report.missing : report.missing[k] = value

\* C32: when the endpoint or the token is missing at the start of a sidebar
\* run, the run ends in the step that finds it so: it has made no call of
\* listModels and no completion call, the documents and the ledger are
\* unchanged, and the error reported names every missing value and no
\* other; with both present the run goes on to the listing.
C32_MissingConfigEndsRunUntouched ==
  [][\A p \in Procs :
       ReadsConfig(p) =>
         LET cfg == lastEvent'.run.config
             run == lastEvent'.run
         IN IF ~cfg.endpoint \/ ~cfg.token
            THEN /\ procs'[p] = Idle
                 /\ lastEvent'.type = "noConfig"
                 /\ lastEvent'.outcome = "error"
                 /\ run.listed = 0 /\ run.issued = 0
                 /\ run.calls = 0 /\ run.requests = 0
                 /\ docs' = docs /\ dirty' = dirty
                 /\ lastAppliedBackup' = lastAppliedBackup
                 /\ lastEvent'.payload.template = "Missing configuration"
                 /\ Names(lastEvent'.payload, "SRC_ENDPOINT") <=> ~cfg.endpoint
                 /\ Names(lastEvent'.payload,
                          "SRC_ACCESS_TOKEN or saved token") <=> ~cfg.token
                 /\ Len(lastEvent'.payload.missing) \in 1..2
            ELSE /\ procs'[p].pc = "listing"
                 /\ lastEvent'.outcome # "error"]_vars

\* a sidebar run has ended on a missing endpoint and a missing token while
\* the ledger held a record
C32_Witness ==
  /\ lastEvent.type = "noConfig"
  /\ lastEvent.run.kind = "sidebar"
  /\ ~lastEvent.run.config.endpoint /\ ~lastEvent.run.config.token
  /\ Len(lastEvent.payload.missing) = 2
  /\ lastAppliedBackup # Null
  /\ procs[lastEvent.proc] = Idle

\* a sidebar run has ended on a missing token alone
C32_TokenWitness ==
  /\ lastEvent.type = "noConfig"
  /\ lastEvent.run.kind = "sidebar"
  /\ lastEvent.run.config.endpoint /\ ~lastEvent.run.config.token
  /\ lastEvent.payload.missing = <<"SRC_ACCESS_TOKEN or saved token">>

\* the step is the one of handler p that follows its listing phase
EndsListing(p) == procs[p].pc = "listing" /\ procs'[p] # procs[p]

\* a call of listModels or the picker has failed in the listing phase
ListingFailed(run, listing) ==
  \/ run.kind = "sidebar" /\ ~listing.refresh
  \/ OffersPicker(run) /\ listing.picker \in {"listFailed", "pickFailed"}

\* the picker has returned a model
ModelPicked(run, listing) ==
  OffersPicker(run) /\ listing.picker \in {"picked", "updateFailed"}

\* every completion call of a run is made with the model id of the run's
\* first one
SameModelInEveryCall ==
  \A p \in Procs :
    (procs[p].issued >= 1 /\ procs'[p].pc = "call")
      => RequestOf(procs'[p]).model = RequestOf(procs[p]).model

\* C33 as stated: a failure of a listing request or of the picker in a run
\* is swallowed (no error outcome, the completion call is made), and the
\* completion calls use the model id resolved before the listing.
C33_FailedListingKeepsResolvedModel ==
  [][/\ \A p \in Procs :
          (EndsListing(p) /\ ListingFailed(procs[p], lastEvent'.payload))
            => /\ lastEvent'.outcome # "error"
               /\ procs'[p].pc = "call" /\ procs'[p].issued = 1
               /\ RequestOf(procs'[p]).model = procs[p].modelId
     /\ SameModelInEveryCall]_vars

\* C33 amended: a failure of a listing request, of the picker or of the
\* update of the model setting is swallowed (no error outcome, the
\* completion call is made); the completion calls use the model the picker
\* returned if it returned one, which needs the picker's own listing to
\* have succeeded, and otherwise the model id resolved before the listing.
C33_SwallowedFailureKeepsPickOrResolvedModel ==
  [][/\ \A p \in Procs :
          EndsListing(p)
            => /\ lastEvent'.outcome # "error"
               /\ procs'[p].pc = "call" /\ procs'[p].issued = 1
               /\ RequestOf(procs'[p]).model =
                    (IF ModelPicked(procs[p], lastEvent'.payload)
                     THEN Picked ELSE procs[p].modelId)
     /\ SameModelInEveryCall]_vars

\* both listings of a chunked sidebar run have failed and its first
\* completion call is in flight, made with the model id resolved before
\* the listing
C33_Witness ==
  /\ lastEvent.type = "call"
  /\ lastEvent.outcome = "none"
  /\ lastEvent.run.kind = "sidebar"
  /\ lastEvent.run.path = "chunked"
  /\ ~lastEvent.payload.refresh
  /\ lastEvent.payload.picker = "listFailed"
  /\ lastEvent.run.listed = 2
  /\ procs[lastEvent.proc].pc = "call"
  /\ RequestOf(procs[lastEvent.proc]).model = ModelId

\* the picker's listing has failed in a run of the command and its
\* completion call is in flight
C33_ListFailedWitness ==
  /\ lastEvent.type = "call"
  /\ lastEvent.run.kind = "command"
  /\ lastEvent.payload.picker = "listFailed"
  /\ RequestOf(lastEvent.run).model = ModelId
  /\ procs[lastEvent.proc].pc = "call"

\* the refreshing listing of a sidebar run has failed, the picker's has
\* not, and the run calls the model the user picked
C33_PickedWitness ==
  /\ lastEvent.type = "call"
  /\ lastEvent.run.kind = "sidebar"
  /\ ~lastEvent.payload.refresh
  /\ lastEvent.payload.picker = "picked"
  /\ RequestOf(lastEvent.run).model = Picked

\* C36: the configured extraRules, when not blank, are appended to every
\* prompt sent in a run, the single-shot prompt and the prompt of each
\* chunk, from both entry points; when they are blank no prompt has a rules
\* section.
C36_RulesAppendedToEveryPrompt ==
  \A p \in Procs :
    procs[p].pc = "call" =>
      LET rules == procs[p].config.rulesText
          extra == RequestOf(procs[p]).prompt.extra
      IN IF Trim(rules) # <<>>
         THEN extra = <<RulesHeading>> \o Trim(rules)
         ELSE extra = <<>>

====
